---------------------------- MODULE Spec2Model ----------------------------
(***************************************************************************)
(* Resume screening agent: the two LangGraph workflows (linear and         *)
(* enhanced), the shared AgentState with its merge rules, the quality gate *)
(* with its reanalysis loop, the tool coordinator and the candidate        *)
(* enricher with its caches.                                               *)
(*                                                                         *)
(* A node action is the whole node function: it reads the state, computes  *)
(* its partial update and the update is merged before the next node runs.  *)
(* Answers of the text-generation service and of the external lookups are  *)
(* inputs drawn from small sets.  Keys that the node functions return but  *)
(* AgentState does not declare (tool_plan, quality_check, reanalysis_count,*)
(* the enrichment results, ...) are kept in the state with the replace     *)
(* rule, which is what the nodes, the router and the runners read back.    *)
(*                                                                         *)
(* A run is started by one of the runners, which refuse to invoke the      *)
(* graph without a resume, or by invoking the compiled graph itself.  The  *)
(* variable `call` holds the last node call with the answers it drew.      *)
(* MergeSpec applies the merge rule on its own to states and updates of    *)
(* any content.                                                            *)
(***************************************************************************)
EXTENDS Integers, Sequences, FiniteSets, TLC

\* ------------------------------------------------------------------ bounds
MaxResumes == 2
\* Longest history kept of the nodes run (a run of the enhanced workflow runs
\* at most 5 + 4 * 2 + 5 nodes)
MaxHistory == 18
\* Longest history kept of the quality verdicts and of the router's labels
MaxVerdicts == 3
\* Longest list in a state or an update handed to the merge on its own
MaxMergeLen == 1
\* Most updates merged one after the other into one such state
MaxMerges == 2
\* Most skills of a candidate handed to the fallback matcher on its own
MaxFallbackSkills == 2
MaxSubmissions == 3       \* presses of Start Screening in one UI session

\* ------------------------------------------------------- program constants
MaxReanalysis == 2
ConfidenceThreshold == 70
FallbackConfidence == 70
MaxCompaniesSearched == 3
MaxSkillsTaxonomized == 10

VARIABLES
    graph,      \* which workflow was compiled: "linear" or "enhanced"
    pc,         \* the node to run next, "should_reanalyze", "END", "ABORTED",
                \* or "REFUSED" when the runner did not invoke the graph
    state,      \* the AgentState dict
    trace,      \* history: the nodes that have run, in order
    routed,     \* history: the labels the router has returned
    verdicts,   \* history: the verdicts check_quality has returned
    extCalls,   \* history: the keys of the external lookups made by the enricher
    call        \* the last call: who made it, the inputs it drew, whether it raised

vars == <<graph, pc, state, trace, routed, verdicts, extCalls, call>>

\* ------------------------------------------------------------ small helpers
Range(s) == {s[i] : i \in 1..Len(s)}

Take(s, n) == SubSeq(s, 1, IF Len(s) < n THEN Len(s) ELSE n)

\* A history stops growing at `bound` entries
Record(history, x, bound) == IF Len(history) < bound THEN Append(history, x) ELSE history

Count(s, x) == Cardinality({i \in 1..Len(s) : s[i] = x})

IsPrefix(s, t) == Len(s) <= Len(t) /\ \A i \in 1..Len(s) : s[i] = t[i]

\* dict.get(key, default)
Get(d, k, default) == IF k \in DOMAIN d THEN d[k] ELSE default

\* str.lower() on the identifiers the inputs are drawn from
Lower(x) ==
    CASE x = "Acme" -> "acme"
      [] x = "Globex" -> "globex"
      [] x = "Python" -> "python"
      [] x = "TensorFlow" -> "tensorflow"
      [] x = "Java" -> "java"
      [] x = "PyTorch" -> "pytorch"
      [] x = "Spring" -> "spring"
      [] OTHER -> x

\* ---------------------------------------------------------------- the state
\* A schema that gives the experience scores the operator.add reducer too
AppendKeysWithScores ==
    {"candidates", "conversation_history", "errors", "experience_scores"}

\* Fields with the operator.add reducer
AppendKeys == {"candidates", "conversation_history", "errors"}

\* The keys AgentState declares
DeclaredKeys ==
    {"job_description", "resumes", "resume_filenames", "job_requirements",
     "candidates", "skill_scores", "experience_scores", "education_scores",
     "candidate_scores", "ranked_candidates", "report", "interview_questions",
     "user_question", "agent_response", "conversation_history", "current_step",
     "errors"}

\* A merge that puts the update's list in front of the existing list
ApplyPrepending(s, p) ==
    [k \in DOMAIN s \cup DOMAIN p |->
        IF k \in DOMAIN p
        THEN IF k \in AppendKeys /\ k \in DOMAIN s THEN p[k] \o s[k] ELSE p[k]
        ELSE s[k]]

\* Merge of a node's partial update into the state
Apply(s, p) ==
    [k \in DOMAIN s \cup DOMAIN p |->
        IF k \in DOMAIN p
        THEN IF k \in AppendKeys /\ k \in DOMAIN s THEN s[k] \o p[k] ELSE p[k]
        ELSE s[k]]

\* ------------------------------------------------------------------ inputs
Docs == <<"r1.pdf", "r2.pdf", "r3.pdf">>

\* What the parser extracts from each document when parsing succeeds
Profile(filename) ==
    CASE filename = "r1.pdf" ->
            [name |-> "Alice", resume_file_name |-> filename,
             work_experience |-> <<"Acme", "Globex", "Acme">>,
             github_url |-> "alice",
             technical_skills |-> <<"Python", "TensorFlow">>]
      [] filename = "r2.pdf" ->
            [name |-> "Bob", resume_file_name |-> filename,
             work_experience |-> <<"Acme">>,
             github_url |-> "alice",
             technical_skills |-> <<"python", "Java">>]
      [] OTHER ->
            [name |-> "Carol", resume_file_name |-> filename,
             work_experience |-> <<"acme", "">>,
             github_url |-> "",
             technical_skills |-> <<"Java">>]

\* ResumeParser._create_empty_candidate
EmptyCandidate(filename) ==
    [name |-> "Unknown (" \o filename \o ")", resume_file_name |-> filename,
     work_experience |-> <<>>, github_url |-> "", technical_skills |-> <<>>]

\* The resume lists a runner hands to the graph: at least one document, the
\* documents in the order of Docs
ResumeLists ==
    {s \in UNION {[1..n -> Range(Docs)] : n \in 1..MaxResumes} :
        \A i, j \in 1..Len(s) :
            i < j => \E a, b \in 1..Len(Docs) : a < b /\ Docs[a] = s[i] /\ Docs[b] = s[j]}

\* ------------------------------------------------------------------- graphs
LinearOrder ==
    <<"job_analyzer", "resume_parser", "skill_matcher", "experience_analyzer",
      "education_verifier", "scorer", "report_generator", "question_generator">>

EnhancedHead ==
    <<"job_analyzer", "resume_parser", "tool_coordinator", "candidate_enricher",
      "skill_matcher_enhanced">>

LoopBody ==
    <<"experience_analyzer_enhanced", "education_verifier", "scorer",
      "quality_checker">>

EnhancedTail ==
    <<"bias_detector", "salary_estimator", "ats_scorer", "report_generator",
      "question_generator">>

\* A linear workflow whose scorer is wired past the report generator
LinearEdgeSkippingReport(node) ==
    CASE node = "job_analyzer" -> "resume_parser"
      [] node = "resume_parser" -> "skill_matcher"
      [] node = "skill_matcher" -> "experience_analyzer"
      [] node = "experience_analyzer" -> "education_verifier"
      [] node = "education_verifier" -> "scorer"
      [] node = "scorer" -> "question_generator"
      [] node = "report_generator" -> "question_generator"
      [] node = "question_generator" -> "END"

\* add_edge(a, b) of create_screening_graph
LinearEdge(node) ==
    CASE node = "job_analyzer" -> "resume_parser"
      [] node = "resume_parser" -> "skill_matcher"
      [] node = "skill_matcher" -> "experience_analyzer"
      [] node = "experience_analyzer" -> "education_verifier"
      [] node = "education_verifier" -> "scorer"
      [] node = "scorer" -> "report_generator"
      [] node = "report_generator" -> "question_generator"
      [] node = "question_generator" -> "END"

\* An enhanced workflow whose scorer is wired past the quality gate
EnhancedEdgeSkippingGate(node) ==
    CASE node = "job_analyzer" -> "resume_parser"
      [] node = "resume_parser" -> "tool_coordinator"
      [] node = "tool_coordinator" -> "candidate_enricher"
      [] node = "candidate_enricher" -> "skill_matcher_enhanced"
      [] node = "skill_matcher_enhanced" -> "experience_analyzer_enhanced"
      [] node = "experience_analyzer_enhanced" -> "education_verifier"
      [] node = "education_verifier" -> "scorer"
      [] node = "scorer" -> "bias_detector"
      [] node = "quality_checker" -> "should_reanalyze"
      [] node = "bias_detector" -> "salary_estimator"
      [] node = "salary_estimator" -> "ats_scorer"
      [] node = "ats_scorer" -> "report_generator"
      [] node = "report_generator" -> "question_generator"
      [] node = "question_generator" -> "END"

\* add_edge(a, b) of create_enhanced_screening_graph; the conditional edge
\* out of quality_checker hands control to the router
EnhancedEdge(node) ==
    CASE node = "job_analyzer" -> "resume_parser"
      [] node = "resume_parser" -> "tool_coordinator"
      [] node = "tool_coordinator" -> "candidate_enricher"
      [] node = "candidate_enricher" -> "skill_matcher_enhanced"
      [] node = "skill_matcher_enhanced" -> "experience_analyzer_enhanced"
      [] node = "experience_analyzer_enhanced" -> "education_verifier"
      [] node = "education_verifier" -> "scorer"
      [] node = "scorer" -> "quality_checker"
      [] node = "quality_checker" -> "should_reanalyze"
      [] node = "bias_detector" -> "salary_estimator"
      [] node = "salary_estimator" -> "ats_scorer"
      [] node = "ats_scorer" -> "report_generator"
      [] node = "report_generator" -> "question_generator"
      [] node = "question_generator" -> "END"

\* A conditional edge whose `reanalyze` target is the skill matcher
RouteTargetFromSkills(label) ==
    IF label = "reanalyze" THEN "skill_matcher_enhanced" ELSE "bias_detector"

\* A conditional edge whose `reanalyze` target is the enricher
RouteTargetFromEnricher(label) ==
    IF label = "reanalyze" THEN "candidate_enricher" ELSE "bias_detector"

\* Targets of the conditional edge
RouteTarget(label) ==
    IF label = "reanalyze" THEN "experience_analyzer_enhanced" ELSE "bias_detector"

NextNode(node) == IF graph = "linear" THEN LinearEdge(node) ELSE EnhancedEdge(node)

\* initial_state of the runners
InitialState(g, resumes) ==
    IF g = "linear"
    THEN [job_description |-> "jd", resumes |-> resumes,
          resume_filenames |-> resumes, candidates |-> <<>>, errors |-> <<>>]
    ELSE [job_description |-> "jd", resumes |-> resumes,
          resume_filenames |-> resumes, candidates |-> <<>>, errors |-> <<>>,
          reanalysis_count |-> 0]

NoCalls == [companies |-> <<>>, github |-> <<>>, skills |-> <<>>]

\* Who starts the run: a command-line runner, the UI runner, or code that
\* invokes the compiled graph itself
Callers == {"cli", "ui", "direct"}

\* The runners exit or return before app.invoke when no resume was loaded;
\* the compiled graph has no such test and starts at its entry point
EntryPoint(caller, resumes) ==
    IF caller \in {"cli", "ui"} /\ Len(resumes) = 0 THEN "REFUSED" ELSE "job_analyzer"

\* What a call leaves in `call`: the node, the inputs it drew, the keys of the
\* update it returned, the documents whose text it sent to the text-generation
\* service (kept for the resume parser), whether it raised
CalledSending(node, input, keys, sent, raised) ==
    [node |-> node, input |-> input, keys |-> keys, sent |-> sent, raised |-> raised]

Called(node, input, keys, raised) == CalledSending(node, input, keys, {}, raised)

Init ==
    /\ graph \in {"linear", "enhanced"}
    /\ \E caller \in Callers, resumes \in ResumeLists \cup {<<>>} :
          /\ state = InitialState(graph, resumes)
          /\ pc = EntryPoint(caller, resumes)
          /\ call = Called("invoke", caller, {}, FALSE)
    /\ trace = <<>>
    /\ routed = <<>>
    /\ verdicts = <<>>
    /\ extCalls = NoCalls

\* A node returned `partial` after sending the texts of `sent`: merge it and
\* follow the node's outgoing edge
FinishSending(node, input, sent, partial) ==
    /\ state' = Apply(state, partial)
    /\ trace' = Record(trace, node, MaxHistory)
    /\ pc' = NextNode(node)
    /\ call' = CalledSending(node, input, DOMAIN partial, sent, FALSE)

Finish(node, input, partial) == FinishSending(node, input, {}, partial)

\* A node raised: the run stops with the exception, nothing is merged
Abort(node, input) ==
    /\ pc' = "ABORTED"
    /\ call' = Called(node, input, {}, TRUE)
    /\ UNCHANGED <<state, trace>>

\* ------------------------------------------------------------- job analysis
\* Answers of the text-generation service to the job-analysis prompt
JobAnswers == {"ok", "undecodable", "wrong_shape", "raise"}

\* JobAnalyzer.analyze on an answer that does not raise
AnalyzedJob(answer) ==
    IF answer = "ok"
    THEN [job_title |-> "ML Engineer", must_have |-> <<"Python", "TensorFlow">>]
    ELSE [job_title |-> "Unknown", must_have |-> <<>>]

\* job_analyzer_node: only a JSON decode error is caught
job_analyzer ==
    /\ pc = "job_analyzer"
    /\ \E answer \in JobAnswers :
          IF answer \in {"ok", "undecodable"}
          THEN Finish("job_analyzer", answer,
                      [job_requirements |-> AnalyzedJob(answer),
                       current_step |-> "job_analysis_complete"])
          ELSE Abort("job_analyzer", answer)
    /\ UNCHANGED <<graph, routed, verdicts, extCalls>>

\* ------------------------------------------------------------ resume parsing
MinTextLength == 100

\* What happens to one document: the number of characters PDFExtractor gets
\* out of it (an extraction that fails gives the empty text) and, if the text
\* is sent on, whether the parse by the text-generation service succeeds
TextLengths == {0, 99, 100, 2000}

Extractions == [text_length : TextLengths, answer : {"ok", "raise"}]

ParseOutcomes == {"ok", "short_text", "raise"}

\* A parser that stops on the empty text only
ParseOutcomeUnlessEmpty(doc) ==
    IF doc.text_length = 0 THEN "short_text" ELSE doc.answer

\* "if not resume_text or len(resume_text) < 100: return empty candidate",
\* before _llm_parse is called
ParseOutcome(doc) ==
    IF doc.text_length = 0 \/ doc.text_length < MinTextLength
    THEN "short_text" ELSE doc.answer

\* A parser whose placeholder does not carry the name of the file
ParsedCandidateAnonymous(filename, outcome) ==
    IF outcome = "ok" THEN Profile(filename) ELSE EmptyCandidate("")

\* ResumeParser.parse_resume plus the except branch of resume_parser_node
ParsedCandidate(filename, outcome) ==
    IF outcome = "ok" THEN Profile(filename) ELSE EmptyCandidate(filename)

resume_parser ==
    /\ pc = "resume_parser"
    /\ LET resumes == Get(state, "resumes", <<>>)
           filenames == Get(state, "resume_filenames", resumes)
           n == IF Len(resumes) < Len(filenames) THEN Len(resumes) ELSE Len(filenames)
       IN \E docs \in [1..n -> Extractions] :
             FinishSending("resume_parser", docs,
                    {filenames[i] : i \in {j \in 1..n : ParseOutcome(docs[j]) /= "short_text"}},
                    [candidates |->
                        [i \in 1..n |-> ParsedCandidate(filenames[i], ParseOutcome(docs[i]))],
                     current_step |-> "resume_parsing_complete"])
    /\ UNCHANGED <<graph, routed, verdicts, extCalls>>

\* ------------------------------------------------- per-candidate score stages
\* Score lists a stage can produce for n candidates (percent points)
ScoreLists(n) == {[i \in 1..n |-> 60 + 10 * i], [i \in 1..n |-> 90 - 10 * i]}

\* A stage that collects its results in the reverse of the candidate order
ScoreEntriesReversed(candidates, scores) ==
    [i \in 1..Len(candidates) |->
        [candidate_name |-> candidates[Len(candidates) + 1 - i].name,
         score |-> scores[Len(candidates) + 1 - i]]]

\* One entry per candidate, in candidate order, carrying the candidate's name
ScoreEntries(candidates, scores) ==
    [i \in 1..Len(candidates) |->
        [candidate_name |-> candidates[i].name, score |-> scores[i]]]

\* A node that loops over state["candidates"] and returns one list
ScoreStage(node, key, step) ==
    /\ pc = node
    /\ \E scores \in ScoreLists(Len(state["candidates"])) :
          Finish(node, scores, [k \in {key, "current_step"} |->
                          IF k = key THEN ScoreEntries(state["candidates"], scores)
                          ELSE step])
    /\ UNCHANGED <<graph, routed, verdicts, extCalls>>

\* Answers of the text-generation service to the skill-matching prompt: a
\* decodable analysis, a text that cannot be decoded, or the call raises
SkillAnswers == {"ok", "undecodable", "raise"}

\* A fallback matcher that compares the names as they are written
FallbackMatchingCaseSensitive(candidate, job_requirements) ==
    LET candidate_skills_set == Range(candidate.technical_skills)
        must_have_skills == job_requirements.must_have
        matched_must_have ==
            SelectSeq(must_have_skills, LAMBDA s : s \in candidate_skills_set)
        missing_must_have ==
            SelectSeq(must_have_skills, LAMBDA s : s \notin candidate_skills_set)
        must_have_match_pct ==
            IF Len(must_have_skills) = 0 THEN 100
            ELSE (Len(matched_must_have) * 100) \div Len(must_have_skills)
    IN [candidate_name |-> candidate.name,
        matched_must_have |-> matched_must_have,
        missing_must_have |-> missing_must_have,
        score |-> (must_have_match_pct * 8) \div 10]

\* SkillMatcher._fallback_matching: the must-have skills whose lower-cased
\* name is one of the candidate's lower-cased skills, as a share of all
\* must-have skills, times 0.8
FallbackMatching(candidate, job_requirements) ==
    LET candidate_skills_set == {Lower(s) : s \in Range(candidate.technical_skills)}
        must_have_skills == job_requirements.must_have
        matched_must_have ==
            SelectSeq(must_have_skills, LAMBDA s : Lower(s) \in candidate_skills_set)
        missing_must_have ==
            SelectSeq(must_have_skills, LAMBDA s : Lower(s) \notin candidate_skills_set)
        must_have_match_pct ==
            IF Len(must_have_skills) = 0 THEN 100
            ELSE (Len(matched_must_have) * 100) \div Len(must_have_skills)
    IN [candidate_name |-> candidate.name,
        matched_must_have |-> matched_must_have,
        missing_must_have |-> missing_must_have,
        score |-> (must_have_match_pct * 8) \div 10]

\* SkillMatcher.match_skills on an answer that was received: the except
\* branch around the decoding hands over to the fallback
MatchSkills(candidate, job_requirements, answer, llm_score) ==
    IF answer = "ok"
    THEN [candidate_name |-> candidate.name, score |-> llm_score]
    ELSE FallbackMatching(candidate, job_requirements)

\* skill_matcher_node: llm.invoke stands before the try block of match_skills
\* and the node has no try block, so a call that raises ends the run
skill_matcher ==
    /\ pc = "skill_matcher"
    /\ LET candidates == state["candidates"]
           n == Len(candidates)
       IN \E scores \in ScoreLists(n), answers \in [1..n -> SkillAnswers] :
             LET input == [scores |-> scores, answers |-> answers]
             IN IF \E i \in 1..n : answers[i] = "raise"
                THEN Abort("skill_matcher", input)
                ELSE Finish("skill_matcher", input,
                            [skill_scores |->
                                [i \in 1..n |->
                                    MatchSkills(candidates[i], state["job_requirements"],
                                                answers[i], scores[i])],
                             current_step |-> "skill_matching_complete"])
    /\ UNCHANGED <<graph, routed, verdicts, extCalls>>

skill_matcher_enhanced ==
    ScoreStage("skill_matcher_enhanced", "skill_scores", "skill_matching_complete")

experience_analyzer ==
    ScoreStage("experience_analyzer", "experience_scores", "experience_analysis_complete")

experience_analyzer_enhanced ==
    ScoreStage("experience_analyzer_enhanced", "experience_scores",
               "experience_analysis_complete")

education_verifier ==
    ScoreStage("education_verifier", "education_scores",
               "education_verification_complete")

\* ------------------------------------------------------------------- scoring
\* settings.SKILL_WEIGHT, EXPERIENCE_WEIGHT, EDUCATION_WEIGHT in tenths
SkillWeight == 5
ExperienceWeight == 3
EducationWeight == 2

\* CandidateScorer._score_candidate; total_score is kept in tenths of a point
ScoreCandidate(candidate, skill, experience, education) ==
    [candidate_name |-> candidate.name,
     total_score |-> SkillWeight * skill.score + ExperienceWeight * experience.score
                     + EducationWeight * education.score]

\* A descending sort that puts a score in front of the earlier scores equal to it
RECURSIVE SortByTotalDescUnstable(_)
SortByTotalDescUnstable(scores) ==
    IF Len(scores) <= 1 THEN scores
    ELSE LET front == SortByTotalDescUnstable(SubSeq(scores, 1, Len(scores) - 1))
             x == scores[Len(scores)]
             before == {i \in 1..Len(front) : front[i].total_score > x.total_score}
             k == Cardinality(before)
         IN SubSeq(front, 1, k) \o <<x>> \o SubSeq(front, k + 1, Len(front))

\* list.sort(key=total_score, reverse=True): stable, equal keys keep their order
RECURSIVE SortByTotalDesc(_)
SortByTotalDesc(scores) ==
    IF Len(scores) <= 1 THEN scores
    ELSE LET front == SortByTotalDesc(SubSeq(scores, 1, Len(scores) - 1))
             x == scores[Len(scores)]
             before == {i \in 1..Len(front) : front[i].total_score >= x.total_score}
             k == Cardinality(before)
         IN SubSeq(front, 1, k) \o <<x>> \o SubSeq(front, k + 1, Len(front))

\* A ranking that numbers the ranks as enumerate does without a start value
ScoreAndRankFromZero(candidates, skill_scores, experience_scores, education_scores) ==
    LET scored == [i \in 1..Len(candidates) |->
                      ScoreCandidate(candidates[i], skill_scores[i],
                                     experience_scores[i], education_scores[i])]
        sorted == SortByTotalDesc(scored)
    IN [r \in 1..Len(sorted) |-> [rank |-> r - 1, candidate_score |-> sorted[r]]]

\* CandidateScorer.score_and_rank_candidates
ScoreAndRank(candidates, skill_scores, experience_scores, education_scores) ==
    LET scored == [i \in 1..Len(candidates) |->
                      ScoreCandidate(candidates[i], skill_scores[i],
                                     experience_scores[i], education_scores[i])]
        sorted == SortByTotalDesc(scored)
    IN [r \in 1..Len(sorted) |-> [rank |-> r, candidate_score |-> sorted[r]]]

\* scorer_node: indexes ranked_candidates[0], which raises on an empty list
scorer ==
    /\ pc = "scorer"
    /\ LET ranked == ScoreAndRank(state["candidates"], state["skill_scores"],
                                  state["experience_scores"], state["education_scores"])
       IN IF Len(ranked) = 0
          THEN Abort("scorer", <<>>)
          ELSE Finish("scorer", <<>>,
                      [candidate_scores |-> [i \in 1..Len(ranked) |-> ranked[i].candidate_score],
                       ranked_candidates |-> ranked,
                       current_step |-> "scoring_complete"])
    /\ UNCHANGED <<graph, routed, verdicts, extCalls>>

\* -------------------------------------------------------------- quality gate
\* Outcomes of QualityChecker._llm_self_reflection: a decoded answer with a
\* low or a high confidence, or a failed call
Reflections == {"low", "high", "failed"}

\* reflection["overall_confidence"], in percent
OverallConfidence(reflection) ==
    CASE reflection = "failed" -> FallbackConfidence
      [] reflection = "low" -> 50
      [] OTHER -> 90

\* QualityChecker.check_quality
CheckQuality(reflection, reanalysis_count) ==
    [confidence |-> OverallConfidence(reflection),
     needs_reanalysis |-> /\ OverallConfidence(reflection) < ConfidenceThreshold
                          /\ reanalysis_count < MaxReanalysis]

\* A quality checker that never counts a reanalysis
NewReanalysisCountStuck(quality_check, reanalysis_count) == reanalysis_count

\* A quality checker that counts consecutive reanalyses only
NewReanalysisCountReset(quality_check, reanalysis_count) ==
    IF quality_check.needs_reanalysis THEN reanalysis_count + 1 ELSE 0

\* "if quality_check['needs_reanalysis']: new_reanalysis_count += 1"
NewReanalysisCount(quality_check, reanalysis_count) ==
    IF quality_check.needs_reanalysis THEN reanalysis_count + 1 ELSE reanalysis_count

\* quality_checker_node
quality_checker ==
    /\ pc = "quality_checker"
    /\ \E reflection \in Reflections :
          LET reanalysis_count == Get(state, "reanalysis_count", 0)
              quality_check == CheckQuality(reflection, reanalysis_count)
          IN /\ Finish("quality_checker", reflection,
                       [quality_check |-> quality_check,
                        reanalysis_count |->
                            NewReanalysisCount(quality_check, reanalysis_count),
                        current_step |-> "quality_check_complete"])
             /\ verdicts' = Record(verdicts, quality_check, MaxVerdicts)
    /\ UNCHANGED <<graph, routed, extCalls>>

\* A router that follows the verdict and never looks at the counter
RouterLabelUncapped(s) ==
    LET quality_check == Get(s, "quality_check", [needs_reanalysis |-> FALSE])
        needs_reanalysis == Get(quality_check, "needs_reanalysis", FALSE)
    IN IF needs_reanalysis THEN "reanalyze" ELSE "continue"

\* The label the router returns on a state
RouterLabel(s) ==
    LET quality_check == Get(s, "quality_check", [needs_reanalysis |-> FALSE])
        needs_reanalysis == Get(quality_check, "needs_reanalysis", FALSE)
        reanalysis_count == Get(s, "reanalysis_count", 0)
    IN IF needs_reanalysis /\ reanalysis_count < MaxReanalysis
       THEN "reanalyze" ELSE "continue"

\* should_reanalyze, evaluated on the state after quality_checker's update
should_reanalyze ==
    /\ pc = "should_reanalyze"
    /\ routed' = Record(routed, RouterLabel(state), MaxVerdicts)
    /\ pc' = RouteTarget(RouterLabel(state))
    /\ UNCHANGED <<graph, state, trace, verdicts, extCalls, call>>

\* --------------------------------------------------------------- final stages
\* A node whose result is one value per candidate name or one document
OutputStage(node, key, value, step) ==
    /\ pc = node
    /\ Finish(node, <<>>,
              [k \in {key, "current_step"} |-> IF k = key THEN value ELSE step])
    /\ UNCHANGED <<graph, routed, verdicts, extCalls>>

CandidateNames == {state["candidates"][i].name : i \in 1..Len(state["candidates"])}

bias_detector ==
    OutputStage("bias_detector", "bias_analysis",
                [screened |-> Len(state["candidates"])], "bias_detection_complete")

salary_estimator ==
    OutputStage("salary_estimator", "salary_estimates",
                [name \in CandidateNames |-> "estimate"], "salary_estimation_complete")

ats_scorer ==
    OutputStage("ats_scorer", "ats_scores",
                [name \in CandidateNames |-> "ats"], "ats_scoring_complete")

report_generator ==
    OutputStage("report_generator", "report",
                [i \in 1..Len(state["ranked_candidates"]) |->
                    state["ranked_candidates"][i].candidate_score.candidate_name],
                "report_generation_complete")

\* QuestionGenerator.generate_questions_for_candidates: zip(candidates, scores),
\* keyed by candidate name, a later candidate of the same name overwrites
GenerateQuestions(candidates, candidate_scores) ==
    LET n == IF Len(candidates) < Len(candidate_scores)
             THEN Len(candidates) ELSE Len(candidate_scores)
        last(name) == CHOOSE i \in 1..n :
                         /\ candidates[i].name = name
                         /\ \A j \in 1..n : candidates[j].name = name => j <= i
    IN [name \in {candidates[i].name : i \in 1..n} |->
           [asked_of |-> name,
            built_from |-> candidate_scores[last(name)].candidate_name]]

question_generator ==
    OutputStage("question_generator", "interview_questions",
                GenerateQuestions(state["candidates"], state["candidate_scores"]),
                "question_generation_complete")

\* ---------------------------------------------------------- tool coordinator
EmptyDict == [x \in {} |-> x]

\* d[k] = v
Put(d, k, v) == [x \in DOMAIN d \cup {k} |-> IF x = k THEN v ELSE d[x]]

valid_tools == <<"web_search", "github", "skill_taxonomy">>

\* Answers of the text-generation service to the tool-selection prompt:
\* shape is what json.loads yields ("dict", "list"), or the text is not JSON
\* ("undecodable"), or the call raises ("raise"); tools_entry tells whether
\* the dict's "tools" entry is a list, is null or is absent
Decision(shape, tools_entry, tools, reasoning, priority) ==
    [shape |-> shape, tools_entry |-> tools_entry, tools |-> tools,
     reasoning |-> reasoning, priority |-> priority]

Decisions ==
    { Decision("dict", "list", <<"web_search", "github", "skill_taxonomy">>, "llm", "high"),
      Decision("dict", "list", <<"linkedin", "web_search", "crystal_ball", "web_search">>,
               "llm", "low"),
      Decision("dict", "list", <<"github", "shell">>, "absent", "low"),
      Decision("dict", "absent", <<>>, "llm", "low"),
      Decision("dict", "null", <<>>, "llm", "low"),
      Decision("list", "absent", <<>>, "absent", "absent"),
      Decision("undecodable", "absent", <<>>, "absent", "absent"),
      Decision("raise", "absent", <<>>, "absent", "absent") }

\* [t for t in tools if t in valid_tools]
RECURSIVE FilterValid(_)
FilterValid(tools) ==
    IF tools = <<>> THEN <<>>
    ELSE IF Head(tools) \in Range(valid_tools)
         THEN <<Head(tools)>> \o FilterValid(Tail(tools))
         ELSE FilterValid(Tail(tools))

\* A coordinator that stores the answer's tool list as it came
ValidatedToolsUnfiltered(tools) == tools

\* The tools list kept from a decoded dict
ValidatedTools(tools) == FilterValid(tools)

\* A coordinator whose fallback plan runs every tool at high priority
DefaultPlanAllTools ==
    [tools |-> <<"web_search", "github", "skill_taxonomy">>,
     reasoning |-> "Using default tool set due to planning error",
     priority |-> "high"]

\* The plan returned by the except branch of _decide_tools_for_candidate
DefaultPlan ==
    [tools |-> <<"skill_taxonomy">>,
     reasoning |-> "Using default tool set due to planning error",
     priority |-> "medium"]

\* ToolCoordinator._decide_tools_for_candidate
DecideToolsForCandidate(decision) ==
    IF decision.shape = "dict" /\ decision.tools_entry /= "null"
    THEN [tools |-> IF decision.tools_entry = "absent" THEN <<>>
                    ELSE ValidatedTools(decision.tools),
          reasoning |-> decision.reasoning,
          priority |-> decision.priority]
    ELSE DefaultPlan

\* ToolCoordinator.create_tool_plan: one plan per candidate name, the plan of
\* a later candidate of the same name overwrites the earlier one
CreateToolPlan(candidates, decisions) ==
    LET last(name) == CHOOSE i \in 1..Len(candidates) :
                         /\ candidates[i].name = name
                         /\ \A j \in 1..Len(candidates) :
                               candidates[j].name = name => j <= i
    IN [name \in {candidates[i].name : i \in 1..Len(candidates)} |->
           DecideToolsForCandidate(decisions[last(name)])]

\* tool_coordinator_node; create_tool_plan prints plan['reasoning'] outside
\* the try block, so a decoded plan without that key raises KeyError
tool_coordinator ==
    /\ pc = "tool_coordinator"
    /\ \E decisions \in [1..Len(state["candidates"]) -> Decisions] :
          IF \E i \in 1..Len(state["candidates"]) :
                DecideToolsForCandidate(decisions[i]).reasoning = "absent"
          THEN Abort("tool_coordinator", decisions)
          ELSE Finish("tool_coordinator", decisions,
                      [tool_plan |-> CreateToolPlan(state["candidates"], decisions),
                       current_step |-> "tool_coordination_complete"])
    /\ UNCHANGED <<graph, routed, verdicts, extCalls>>

\* ---------------------------------------------------------------- enrichment
\* A search that finds nothing gives the same kind of result as one that fails
CompanyOutcomes == {"found", "error"}
GithubOutcomes == {"ok", "error"}

\* The outcome of the i-th external call of a kind
OutcomeOf(outcomes, i) == outcomes[((i - 1) % Len(outcomes)) + 1]

\* CandidateEnricher.__init__: the enricher's cache, the caches of its tools,
\* and the log of the external calls made so far
NewEnricher ==
    [enrichment_cache |-> [companies |-> EmptyDict, github |-> EmptyDict,
                           skills |-> EmptyDict],
     web_cache |-> EmptyDict,
     github_cache |-> EmptyDict,
     calls |-> NoCalls]

\* WebSearchTool.search_company: only a successful search is cached by the tool
SearchCompany(e, company_name, oracle) ==
    LET cache_key == "company:" \o Lower(company_name)
    IN IF cache_key \in DOMAIN e.web_cache
       THEN [e |-> e, result |-> e.web_cache[cache_key]]
       ELSE LET called == [e EXCEPT !.calls.companies = Append(@, company_name)]
                outcome == OutcomeOf(oracle.company, Len(called.calls.companies))
                result == IF outcome = "found"
                          THEN [exists |-> TRUE, description |-> company_name]
                          ELSE [exists |-> FALSE, description |-> "Search error"]
            IN [e |-> IF outcome = "found"
                      THEN [called EXCEPT !.web_cache = Put(@, cache_key, result)]
                      ELSE called,
                result |-> result]

\* An enricher that never finds a company in its own cache
CompanyCachedNever(e, company_name) == FALSE

\* "if company_name in self.enrichment_cache['companies']"
CompanyCached(e, company_name) == company_name \in DOMAIN e.enrichment_cache.companies

\* CandidateEnricher._run_web_search, from the i-th work-history entry on
RECURSIVE RunWebSearchFrom(_, _, _, _, _)
RunWebSearchFrom(e, work_exp, i, company_data, oracle) ==
    IF i > Len(work_exp) THEN [e |-> e, data |-> company_data]
    ELSE LET company_name == work_exp[i]
         IN IF company_name = ""
            THEN RunWebSearchFrom(e, work_exp, i + 1, company_data, oracle)
            ELSE IF CompanyCached(e, company_name)
            THEN RunWebSearchFrom(e, work_exp, i + 1,
                    Put(company_data, company_name,
                        e.enrichment_cache.companies[company_name]), oracle)
            ELSE LET s == SearchCompany(e, company_name, oracle)
                 IN RunWebSearchFrom(
                       [s.e EXCEPT !.enrichment_cache.companies =
                                       Put(@, company_name, s.result)],
                       work_exp, i + 1,
                       Put(company_data, company_name, s.result), oracle)

RunWebSearch(e, candidate, oracle) ==
    RunWebSearchFrom(e, Take(candidate.work_experience, MaxCompaniesSearched), 1,
                     EmptyDict, oracle)

\* GitHubAnalyzer.analyze_profile: only a successful analysis is cached by
\* the tool; the inputs are bare usernames, which _extract_username keeps
AnalyzeProfile(e, github_url, oracle) ==
    LET username == github_url
    IN IF username \in DOMAIN e.github_cache
       THEN [e |-> e, result |-> e.github_cache[username]]
       ELSE LET called == [e EXCEPT !.calls.github = Append(@, username)]
                outcome == OutcomeOf(oracle.github, Len(called.calls.github))
                result == [exists |-> outcome = "ok", username |-> username]
            IN [e |-> IF outcome = "ok"
                      THEN [called EXCEPT !.github_cache = Put(@, username, result)]
                      ELSE called,
                result |-> result]

\* CandidateEnricher._run_github_analysis
RunGithubAnalysis(e, candidate, oracle) ==
    LET github_url == candidate.github_url
    IN IF github_url = "" THEN [e |-> e, data |-> EmptyDict]
       ELSE IF github_url \in DOMAIN e.enrichment_cache.github
       THEN [e |-> e, data |-> e.enrichment_cache.github[github_url]]
       ELSE LET s == AnalyzeProfile(e, github_url, oracle)
            IN [e |-> [s.e EXCEPT !.enrichment_cache.github =
                                      Put(@, github_url, s.result)],
                data |-> s.result]

\* SkillTaxonomy.find_related_skills(skill, max_results=3): a table lookup
FindRelatedSkills(skill) ==
    CASE Lower(skill) = "python" -> <<"Django", "Flask", "Fastapi">>
      [] Lower(skill) = "tensorflow" -> <<"Pytorch", "Keras", "Machine Learning">>
      [] Lower(skill) = "java" -> <<"Python", "Javascript", "Typescript">>
      [] OTHER -> <<>>

\* CandidateEnricher._run_skill_taxonomy, from the i-th skill on
RECURSIVE RunSkillTaxonomyFrom(_, _, _, _)
RunSkillTaxonomyFrom(e, skills, i, taxonomy_data) ==
    IF i > Len(skills) THEN [e |-> e, data |-> taxonomy_data]
    ELSE LET skill == skills[i]
             cache_key == Lower(skill)
         IN IF cache_key \in DOMAIN e.enrichment_cache.skills
            THEN RunSkillTaxonomyFrom(e, skills, i + 1,
                    Put(taxonomy_data, skill, e.enrichment_cache.skills[cache_key]))
            ELSE LET related == FindRelatedSkills(skill)
                 IN RunSkillTaxonomyFrom(
                       [e EXCEPT !.calls.skills = Append(@, cache_key),
                                 !.enrichment_cache.skills = Put(@, cache_key, related)],
                       skills, i + 1, Put(taxonomy_data, skill, related))

RunSkillTaxonomy(e, candidate) ==
    RunSkillTaxonomyFrom(e, Take(candidate.technical_skills, MaxSkillsTaxonomized), 1,
                         EmptyDict)

\* An empty dict or list is falsy
Truthy(d) == DOMAIN d /= {}

\* CandidateEnricher.enrich_candidates, from the i-th candidate on; r holds the
\* enricher and the three result dicts
RECURSIVE EnrichFrom(_, _, _, _, _)
EnrichFrom(r, candidates, i, tool_plan, oracle) ==
    IF i > Len(candidates) THEN r
    ELSE LET candidate == candidates[i]
             candidate_name == candidate.name
             plan == Get(tool_plan, candidate_name, EmptyDict)
             tools == Get(plan, "tools", <<>>)
             web == IF "web_search" \in Range(tools)
                    THEN RunWebSearch(r.e, candidate, oracle)
                    ELSE [e |-> r.e, data |-> EmptyDict]
             hub == IF "github" \in Range(tools)
                    THEN RunGithubAnalysis(web.e, candidate, oracle)
                    ELSE [e |-> web.e, data |-> EmptyDict]
             tax == IF "skill_taxonomy" \in Range(tools)
                    THEN RunSkillTaxonomy(hub.e, candidate)
                    ELSE [e |-> hub.e, data |-> EmptyDict]
         IN EnrichFrom(
               [e |-> tax.e,
                company_verifications |->
                    IF Truthy(web.data) THEN Put(r.company_verifications, candidate_name, web.data)
                    ELSE r.company_verifications,
                github_analyses |->
                    IF Truthy(hub.data) THEN Put(r.github_analyses, candidate_name, hub.data)
                    ELSE r.github_analyses,
                skill_taxonomy_data |->
                    IF Truthy(tax.data) THEN Put(r.skill_taxonomy_data, candidate_name, tax.data)
                    ELSE r.skill_taxonomy_data],
               candidates, i + 1, tool_plan, oracle)

EnrichCandidates(candidates, tool_plan, oracle) ==
    EnrichFrom([e |-> NewEnricher, company_verifications |-> EmptyDict,
                github_analyses |-> EmptyDict, skill_taxonomy_data |-> EmptyDict],
               candidates, 1, tool_plan, oracle)

\* Every sequence of outcomes the external calls of one run can have: one
\* outcome per lookup the candidates' profiles can ask for
LookupsAsked(candidates) ==
    LET n == Cardinality(UNION {Range(candidates[i].work_experience) :
                                  i \in 1..Len(candidates)} \ {""})
    IN IF n = 0 THEN 1 ELSE n

Oracles(candidates) ==
    [company : [1..LookupsAsked(candidates) -> CompanyOutcomes],
     github : [1..1 -> GithubOutcomes]]

\* candidate_enricher_node: a new enricher each time the node runs
candidate_enricher ==
    /\ pc = "candidate_enricher"
    /\ \E oracle \in Oracles(state["candidates"]) :
          LET r == EnrichCandidates(state["candidates"],
                                    Get(state, "tool_plan", EmptyDict), oracle)
          IN /\ Finish("candidate_enricher", oracle,
                       [company_verifications |-> r.company_verifications,
                        github_analyses |-> r.github_analyses,
                        skill_taxonomy_data |-> r.skill_taxonomy_data,
                        current_step |-> "enrichment_complete"])
             /\ extCalls' = r.e.calls
    /\ UNCHANGED <<graph, routed, verdicts>>

\* ------------------------------------------------------------- specification
Next ==
    \/ job_analyzer
    \/ resume_parser
    \/ tool_coordinator
    \/ candidate_enricher
    \/ skill_matcher
    \/ skill_matcher_enhanced
    \/ experience_analyzer
    \/ experience_analyzer_enhanced
    \/ education_verifier
    \/ scorer
    \/ quality_checker
    \/ should_reanalyze
    \/ bias_detector
    \/ salary_estimator
    \/ ats_scorer
    \/ report_generator
    \/ question_generator

Spec == Init /\ [][Next]_vars

\* The run is over: the terminal marker was reached, a node raised, or the
\* runner never invoked the graph
Stopped == pc \in {"END", "ABORTED", "REFUSED"}

\* graph.invoke runs the next node of the workflow as long as the run is not
\* over: weak fairness of Next
WeakFairness == WF_vars(Next)

\* WeakFairness is []<>~ENABLED <<Next>>_vars \/ []<><<Next>>_vars. Every
\* node action is enabled at its own pc and every step of Next moves pc, so
\* on the behaviours of Spec ENABLED <<Next>>_vars is ~Stopped and a
\* <<Next>>_vars step is a step that changes pc: FairSpec is
\* Spec /\ WeakFairness, written without ENABLED.
FairSpec == Spec /\ ([]<>Stopped \/ []<><<pc' /= pc>>_vars)

\* -------------------------------------------------------- the merge by itself
\* The merge applied to states and updates of any content: lists of at most
\* MaxMergeLen entries, an update that writes at most one list and possibly
\* current_step
MergeLists == UNION {[1..n -> {"x", "y"}] : n \in 0..MaxMergeLen}

MergeInit ==
    /\ graph = "linear"
    /\ pc = "merge"
    /\ \E candidates \in MergeLists :
          state = [candidates |-> candidates, errors |-> <<>>, current_step |-> "s0"]
    /\ trace = <<>>
    /\ routed = <<>>
    /\ verdicts = <<>>
    /\ extCalls = NoCalls
    /\ call = Called("invoke", "direct", {}, FALSE)

MergeUpdates ==
    LET ListKeys == {"candidates", "errors", "conversation_history", "skill_scores"}
        lists == {[k \in {key} |-> list] : key \in ListKeys, list \in MergeLists}
        step == [k \in {"current_step"} |-> "s1"]
    IN lists \cup {Apply(p, step) : p \in lists} \cup {step}

merge ==
    /\ pc = "merge"
    /\ Len(trace) < MaxMerges
    /\ \E partial \in MergeUpdates :
          /\ state' = Apply(state, partial)
          /\ call' = Called("merge", partial, DOMAIN partial, FALSE)
    /\ trace' = Append(trace, "merge")
    /\ UNCHANGED <<graph, pc, routed, verdicts, extCalls>>

MergeNext == merge

MergeSpec == MergeInit /\ [][MergeNext]_vars

\* ------------------------------------------- the fallback matcher by itself
\* The fallback matcher applied to two candidates A and B of any skills, and
\* the scorer applied to its result with equal experience and education scores
SkillNames == {"Python", "python", "TensorFlow", "PyTorch", "Java", "Spring"}

SkillLists == UNION {[1..n -> SkillNames] : n \in 0..MaxFallbackSkills}

MustHaveLists == {<<>>, <<"TensorFlow">>, <<"Python", "TensorFlow">>, <<"python", "Java">>}

FallbackInit ==
    /\ graph = "linear"
    /\ pc = "skill_matcher"
    /\ \E must_have \in MustHaveLists, a, b \in SkillLists :
          state = [job_requirements |-> [job_title |-> "ML Engineer", must_have |-> must_have],
                   candidates |-> <<[name |-> "A", technical_skills |-> a],
                                    [name |-> "B", technical_skills |-> b]>>]
    /\ trace = <<>>
    /\ routed = <<>>
    /\ verdicts = <<>>
    /\ extCalls = NoCalls
    /\ call = Called("invoke", "direct", {}, FALSE)

\* skill_matcher_node when every answer is undecodable
fallback_matcher ==
    /\ pc = "skill_matcher"
    /\ LET candidates == state["candidates"]
           partial == [skill_scores |->
                          [i \in 1..Len(candidates) |->
                              FallbackMatching(candidates[i], state["job_requirements"])]]
       IN /\ state' = Apply(state, partial)
          /\ call' = Called("skill_matcher", <<>>, DOMAIN partial, FALSE)
    /\ trace' = Append(trace, "skill_matcher")
    /\ pc' = "scorer"
    /\ UNCHANGED <<graph, routed, verdicts, extCalls>>

\* scorer_node on experience and education scores that are the same for all
fallback_scorer ==
    /\ pc = "scorer"
    /\ \E experience, education \in {60, 80} :
          LET candidates == state["candidates"]
              equal(score) == ScoreEntries(candidates, [i \in 1..Len(candidates) |-> score])
              partial == [ranked_candidates |->
                             ScoreAndRank(candidates, state["skill_scores"],
                                          equal(experience), equal(education))]
          IN /\ state' = Apply(state, partial)
             /\ call' = Called("scorer", <<experience, education>>, DOMAIN partial, FALSE)
    /\ trace' = Append(trace, "scorer")
    /\ pc' = "END"
    /\ UNCHANGED <<graph, routed, verdicts, extCalls>>

FallbackNext == fallback_matcher \/ fallback_scorer

FallbackSpec == FallbackInit /\ [][FallbackNext]_vars

\* ------------------------------------------- candidates with the same name
\* The coordinator and the enricher of an enhanced run, started from the state
\* the parser leaves when the names on the resumes are any names, the same
\* name on two resumes included.
ParsedNames == {"Alice", "Bob"}

NamesakeInit ==
    /\ graph = "enhanced"
    /\ pc = "tool_coordinator"
    /\ \E resumes \in ResumeLists :
       \E names \in [1..Len(resumes) -> ParsedNames] :
          state = Apply(Apply(InitialState("enhanced", resumes),
                              [job_requirements |-> AnalyzedJob("ok"),
                               current_step |-> "job_analysis_complete"]),
                        [candidates |-> [i \in 1..Len(resumes) |->
                                            [Profile(resumes[i]) EXCEPT !.name = names[i]]],
                         current_step |-> "resume_parsing_complete"])
    /\ trace = <<"job_analyzer", "resume_parser">>
    /\ routed = <<>>
    /\ verdicts = <<>>
    /\ extCalls = NoCalls
    /\ call = Called("resume_parser", <<>>, {"candidates", "current_step"}, FALSE)

NamesakeNext == tool_coordinator \/ candidate_enricher

NamesakeSpec == NamesakeInit /\ [][NamesakeNext]_vars

\* ------------------------------------------------------------ the UI session
\* The Streamlit shell: `state` is st.session_state, pc tells whether a rerun
\* of the script is pending ("rerun") or the page waits for the user
\* ("waiting"), trace logs the presses of Start Screening and the executions
\* of the workflow, graph is the graph run_workflow created last.
WorkflowTypes == {"Enhanced (Full Analysis)", "Basic (Fast)"}

NoFiles == [submission |-> 0, count |-> 0]

Event(kind, submission) == [event |-> kind, submission |-> submission]

Submissions == Count([i \in 1..Len(trace) |-> trace[i].event], "start")

\* initialize_session_state: results of 0 stands for None
UIInit ==
    /\ graph = "none"
    /\ pc = "waiting"
    /\ state = [current_page |-> "upload", workflow_state |-> "idle",
                job_description |-> "none", resume_files |-> NoFiles,
                workflow_type |-> "Enhanced (Full Analysis)",
                results |-> 0, errors |-> <<>>]
    /\ trace = <<>>
    /\ routed = <<>>
    /\ verdicts = <<>>
    /\ extCalls = NoCalls
    /\ call = Called("invoke", "ui", {}, FALSE)

\* render_upload_section, the Start Screening button pressed with a job text
\* and at least one resume: saves the inputs, sets workflow_state and
\* current_page to "processing", st.rerun()
start_screening ==
    /\ pc = "waiting"
    /\ state["current_page"] = "upload"
    /\ Submissions < MaxSubmissions
    /\ \E count \in 1..MaxResumes, workflow_type \in WorkflowTypes :
          state' = [state EXCEPT !["job_description"] = "jd",
                                 !["resume_files"] = [submission |-> Submissions + 1,
                                                      count |-> count],
                                 !["workflow_type"] = workflow_type,
                                 !["workflow_state"] = "processing",
                                 !["current_page"] = "processing"]
    /\ trace' = Append(trace, Event("start", Submissions + 1))
    /\ pc' = "rerun"
    /\ UNCHANGED <<graph, routed, verdicts, extCalls, call>>

\* render_processing_status, line 24: whether run_workflow is called
RunsWorkflow(session) ==
    session["workflow_state"] = "processing" /\ session["results"] = 0

\* The graph run_workflow creates
GraphOf(workflow_type) ==
    IF workflow_type = "Enhanced (Full Analysis)" THEN "enhanced" ELSE "linear"

\* A script run on the processing page: render_processing_status, with
\* run_workflow when RunsWorkflow; app.invoke returns ("ok") or raises
render_processing_status ==
    /\ pc = "rerun"
    /\ state["current_page"] = "processing"
    /\ IF RunsWorkflow(state)
       THEN IF state["job_description"] = "none" \/ state["resume_files"] = NoFiles
            THEN /\ state' = [state EXCEPT !["workflow_state"] = "error"]
                 /\ pc' = "waiting"
                 /\ UNCHANGED <<trace, graph>>
            ELSE \E outcome \in {"ok", "raise"} :
                    /\ graph' = GraphOf(state["workflow_type"])
                    /\ trace' = Append(trace, Event("run", state["resume_files"].submission))
                    /\ IF outcome = "ok"
                       THEN /\ state' = [state EXCEPT
                                            !["results"] = state["resume_files"].submission,
                                            !["workflow_state"] = "complete"]
                            /\ pc' = "rerun"
                       ELSE /\ state' = [state EXCEPT
                                            !["workflow_state"] = "error",
                                            !["errors"] = <<state["resume_files"].submission>>]
                            /\ pc' = "waiting"
       ELSE /\ pc' = "waiting"
            /\ UNCHANGED <<state, trace, graph>>
    /\ UNCHANGED <<routed, verdicts, extCalls, call>>

\* A script run on one of the other pages
render_page ==
    /\ pc = "rerun"
    /\ state["current_page"] /= "processing"
    /\ pc' = "waiting"
    /\ UNCHANGED <<graph, state, trace, routed, verdicts, extCalls, call>>

\* render_sidebar: the buttons shown for the current workflow_state
SidebarPages(workflow_state) ==
    {"upload"}
    \cup (IF workflow_state \in {"processing", "complete"} THEN {"processing"} ELSE {})
    \cup (IF workflow_state = "complete" THEN {"results", "details"} ELSE {})

sidebar_button ==
    /\ pc = "waiting"
    /\ \E page \in SidebarPages(state["workflow_state"]) :
          state' = [state EXCEPT !["current_page"] = page]
    /\ pc' = "rerun"
    /\ UNCHANGED <<graph, trace, routed, verdicts, extCalls, call>>

\* show_completion_ui: View Results Dashboard
view_results ==
    /\ pc = "waiting"
    /\ state["current_page"] = "processing"
    /\ state["workflow_state"] = "complete"
    /\ state["results"] /= 0
    /\ state' = [state EXCEPT !["current_page"] = "results"]
    /\ pc' = "rerun"
    /\ UNCHANGED <<graph, trace, routed, verdicts, extCalls, call>>

\* show_error_ui: Try Again
try_again ==
    /\ pc = "waiting"
    /\ state["current_page"] = "processing"
    /\ state["workflow_state"] = "error"
    /\ state' = [state EXCEPT !["workflow_state"] = "idle",
                              !["current_page"] = "upload"]
    /\ pc' = "rerun"
    /\ UNCHANGED <<graph, trace, routed, verdicts, extCalls, call>>

UINext ==
    \/ start_screening
    \/ render_processing_status
    \/ render_page
    \/ sidebar_button
    \/ view_results
    \/ try_again

UISpec == UIInit /\ [][UINext]_vars

\* st.rerun() restarts the script: a pending script run takes place
UIFairSpec == UISpec /\ WF_vars(render_processing_status) /\ WF_vars(render_page)

\* ------------------------------------------------------------------- claims
Reanalyses == Count(routed, "reanalyze")

ReanalysisCount == Get(state, "reanalysis_count", 0)

Last(s) == s[Len(s)]

\* C1: the router selects `reanalyze` at most twice in a run, and once two
\* reanalyses have been triggered (the router chose it twice, or the retry
\* counter stands at 2) it selects `continue` whatever the verdict says.
C1_RouterCapped ==
    /\ Reanalyses <= 2
    /\ (pc = "should_reanalyze" /\ (Reanalyses >= 2 \/ ReanalysisCount >= 2))
          => RouterLabel(state) = "continue"

\* The verdict asks for a rerun, the counter is at the cap, the router continues
C1_Witness ==
    /\ routed /= <<>>
    /\ Last(routed) = "continue"
    /\ pc = "bias_detector"
    /\ state["quality_check"].needs_reanalysis
    /\ ReanalysisCount = 2

AlwaysLow == \A i \in 1..Len(verdicts) : verdicts[i].confidence < ConfidenceThreshold

\* C3: when every quality check of a run finds the confidence below the
\* threshold, the run performs exactly two reanalyses (the loop body runs
\* three times) and ends with the retry counter at 2.
C3_TwoReanalysesWhenAlwaysLow ==
    (graph = "enhanced" /\ pc = "END" /\ AlwaysLow)
        => /\ Reanalyses = 2
           /\ Count(trace, "quality_checker") = 3
           /\ Count(trace, "experience_analyzer_enhanced") = 3
           /\ ReanalysisCount = 2

\* C4: after the router has decided, reanalysis_count equals the number of
\* times the router has selected `reanalyze` so far (0 before the first
\* decision).
C4_CounterCountsReanalyses ==
    (graph = "enhanced" /\ pc /= "should_reanalyze") => ReanalysisCount = Reanalyses

\* The nodes the enhanced workflow must have run, given the router's labels
RECURSIVE AfterLabels(_)
AfterLabels(labels) ==
    IF labels = <<>> THEN <<>>
    ELSE (IF Head(labels) = "reanalyze" THEN LoopBody ELSE EnhancedTail)
         \o AfterLabels(Tail(labels))

ExpectedTrace(labels) == EnhancedHead \o LoopBody \o AfterLabels(labels)

\* The entries of a score list are those of the full candidate list, in order
CoversCandidates(key) ==
    /\ Len(state[key]) = Len(state["candidates"])
    /\ \A i \in 1..Len(state[key]) :
          state[key][i].candidate_name = state["candidates"][i].name

\* C5: after `reanalyze` the nodes run are experience analysis, education
\* verification, scoring and quality check, in that order, over the same full
\* candidate list, and no earlier node runs again; after `continue` the nodes
\* bias detection, salary estimation, ATS scoring, report and question
\* generation run once each in that order and the run ends.
C5_RouteOrder ==
    /\ [](graph = "enhanced" =>
            /\ IsPrefix(trace, ExpectedTrace(routed))
            /\ (pc = "END" => trace = ExpectedTrace(routed) /\ Last(routed) = "continue")
            /\ (routed /= <<>> /\ Last(routed) = "continue") =>
                    Count(routed, "continue") = 1
            /\ (trace /= <<>> /\ Last(trace) = "experience_analyzer_enhanced") =>
                    CoversCandidates("experience_scores")
            /\ (trace /= <<>> /\ Last(trace) = "education_verifier") =>
                    CoversCandidates("education_scores"))
    /\ [][(graph = "enhanced" /\ pc /= "resume_parser") =>
              state'["candidates"] = state["candidates"]]_vars

\* A run that was sent round the loop, then on, and ended
C5_Witness ==
    /\ graph = "enhanced" /\ pc = "END"
    /\ routed = <<"reanalyze", "continue">>
    /\ Len(state["candidates"]) = 2

\* current_step written by each node
StepOf(node) ==
    CASE node = "job_analyzer" -> "job_analysis_complete"
      [] node = "resume_parser" -> "resume_parsing_complete"
      [] node = "tool_coordinator" -> "tool_coordination_complete"
      [] node = "candidate_enricher" -> "enrichment_complete"
      [] node \in {"skill_matcher", "skill_matcher_enhanced"} -> "skill_matching_complete"
      [] node \in {"experience_analyzer", "experience_analyzer_enhanced"} ->
            "experience_analysis_complete"
      [] node = "education_verifier" -> "education_verification_complete"
      [] node = "scorer" -> "scoring_complete"
      [] node = "quality_checker" -> "quality_check_complete"
      [] node = "bias_detector" -> "bias_detection_complete"
      [] node = "salary_estimator" -> "salary_estimation_complete"
      [] node = "ats_scorer" -> "ats_scoring_complete"
      [] node = "report_generator" -> "report_generation_complete"
      [] node = "question_generator" -> "question_generation_complete"

Positions(node) == {i \in 1..Len(trace) : trace[i] = node}

\* C6: in the enhanced workflow tool coordination and then enrichment run
\* exactly once, after resume parsing and before skill matching; the quality
\* check runs after every run of the scorer and before any of the final
\* stages; a node runs only when its predecessor's update is in the state.
C6_EnhancedOrder ==
    graph = "enhanced" =>
        /\ Positions("tool_coordinator") \subseteq {3}
        /\ Positions("candidate_enricher") \subseteq {4}
        /\ Positions("resume_parser") \subseteq {2}
        /\ Positions("skill_matcher_enhanced") \subseteq {5}
        /\ pc = "END" => /\ Count(trace, "tool_coordinator") = 1
                         /\ Count(trace, "candidate_enricher") = 1
        /\ \A i \in Positions("scorer") :
              IF i = Len(trace) THEN pc = "quality_checker"
              ELSE trace[i + 1] = "quality_checker"
        /\ \A i \in 1..Len(trace) :
              trace[i] \in Range(EnhancedTail) =>
                  \E q \in Positions("quality_checker") :
                      /\ q < i
                      /\ \A j \in Positions("scorer") : j < q
        /\ trace /= <<>> => state["current_step"] = StepOf(Last(trace))
        /\ (trace /= <<>> /\ pc \notin {"END", "ABORTED", "should_reanalyze"}
              /\ Last(trace) /= "quality_checker") => pc = EnhancedEdge(Last(trace))

\* A finished run in which the scorer ran twice
C6_Witness == graph = "enhanced" /\ pc = "END" /\ Count(trace, "scorer") = 2

\* C7: the linear workflow runs its eight nodes once each in the order job
\* analysis, resume parsing, skill matching, experience analysis, education
\* verification, scoring, report generation, question generation, then ends;
\* it has no router and never runs a node again.
C7_LinearOrder ==
    graph = "linear" =>
        /\ IsPrefix(trace, LinearOrder)
        /\ routed = <<>>
        /\ pc = "END" => trace = LinearOrder
        /\ ~Stopped => pc = LinearOrder[Len(trace) + 1]

C7_Witness == graph = "linear" /\ pc = "END" /\ Len(trace) = 8

\* C8: within one run the enricher makes at most one external lookup per
\* distinct key of each kind (company name, profile identifier, skill): a key
\* shared by two candidates, or by two entries of one candidate, is served
\* from the cache the second time.
C8_OneCallPerKey ==
    /\ \A k \in Range(extCalls.companies) : Count(extCalls.companies, k) = 1
    /\ \A k \in Range(extCalls.github) : Count(extCalls.github, k) = 1
    /\ \A k \in Range(extCalls.skills) : Count(extCalls.skills, k) = 1

\* Two candidates were both verified against "Acme", which was looked up once
C8_Witness ==
    /\ "company_verifications" \in DOMAIN state
    /\ \E a, b \in DOMAIN state["company_verifications"] :
          /\ a /= b
          /\ "Acme" \in DOMAIN state["company_verifications"][a]
          /\ "Acme" \in DOMAIN state["company_verifications"][b]
    /\ Count(extCalls.companies, "Acme") = 1

\* The candidates whose verification of company k is a failed lookup
FailedFor(k) ==
    {a \in DOMAIN state["company_verifications"] :
        /\ k \in DOMAIN state["company_verifications"][a]
        /\ ~state["company_verifications"][a][k].exists}

\* C9: a failed company lookup is not kept in the enrichment cache: when the
\* lookup of a key failed for one candidate, a later candidate with the same
\* key gets a lookup of its own, so every candidate holding a failed result
\* for a key had its own external call for that key.
C9_FailedLookupRetried ==
    "company_verifications" \in DOMAIN state =>
        \A k \in Range(extCalls.companies) :
            Cardinality(FailedFor(k)) <= Count(extCalls.companies, k)

\* C10: the tool list stored in a candidate's tool plan holds only
\* identifiers of the fixed set {web_search, github, skill_taxonomy},
\* whatever the decision source answered.
C10_OnlyKnownTools ==
    "tool_plan" \in DOMAIN state =>
        \A name \in DOMAIN state["tool_plan"] :
            Range(state["tool_plan"][name].tools)
                \subseteq {"web_search", "github", "skill_taxonomy"}

\* A stored plan that was cut down from an answer naming unknown tools
C10_Witness ==
    /\ "tool_plan" \in DOMAIN state
    /\ \E name \in DOMAIN state["tool_plan"] :
          state["tool_plan"][name].tools = <<"web_search", "web_search">>

\* The candidates whose tool decision failed: the call raised or its answer
\* was not JSON
FailedDecisions(decisions) ==
    {i \in 1..Len(decisions) : decisions[i].shape \in {"raise", "undecodable"}}

\* The candidates whose decoded plan has no "reasoning" entry
PlansWithoutReasoning(decisions) ==
    {i \in 1..Len(decisions) :
        /\ decisions[i].shape = "dict"
        /\ decisions[i].tools_entry /= "null"
        /\ decisions[i].reasoning = "absent"}

ParsePosition(name) ==
    CHOOSE i \in 1..Len(state["candidates"]) : state["candidates"][i].name = name

\* C12: whenever the scorer has run (the first time or again inside the
\* reanalysis loop) the ranked list holds every candidate, sorted by total
\* score in descending order, and two candidates with equal total score stand
\* in the order in which they were parsed.
C12_RankedSortedStable ==
    "ranked_candidates" \in DOMAIN state =>
        LET ranked == state["ranked_candidates"]
            total(i) == ranked[i].candidate_score.total_score
            name(i) == ranked[i].candidate_score.candidate_name
        IN /\ Len(ranked) = Len(state["candidates"])
           /\ \A i, j \in 1..Len(ranked) :
                 i < j => /\ total(i) >= total(j)
                          /\ total(i) = total(j) =>
                                ParsePosition(name(i)) < ParsePosition(name(j))

\* The scorer has just run for the second time; two candidates have the same
\* total score
C12_Witness ==
    /\ trace /= <<>> /\ Last(trace) = "scorer"
    /\ Count(trace, "scorer") = 2
    /\ Len(state["ranked_candidates"]) = 2
    /\ state["ranked_candidates"][1].candidate_score.total_score
          = state["ranked_candidates"][2].candidate_score.total_score

\* C13: when the initial state holds no candidate document the run is
\* refused, however it was started: no stage is called and nothing is
\* recorded as run.
C13_RefusedWithoutDocuments ==
    Len(state["resumes"]) = 0 => (trace = <<>> /\ call.node = "invoke")

\* C14: a stage that returns an update with a key AgentState does not declare
\* ends the run with an error: the run does not go on to the next stage.
C14_UndeclaredKeyAborts ==
    (call.keys \ DeclaredKeys) /= {} => pc = "ABORTED"

\* C15: a merge keeps every field the update does not name; for candidates,
\* errors and conversation_history the new list is the old list, entry by entry
\* in its old order, followed by the update's list; for every other field the
\* new value is the update's value.
C15_MergeRule ==
    [][call'.node = "merge" =>
          LET p == call'.input
          IN /\ DOMAIN state' = DOMAIN state \cup DOMAIN p
             /\ \A k \in DOMAIN state' :
                   IF k \notin DOMAIN p THEN state'[k] = state[k]
                   ELSE IF k \in {"candidates", "errors", "conversation_history"}
                   THEN LET old == Get(state, k, <<>>)
                        IN /\ Len(state'[k]) = Len(old) + Len(p[k])
                           /\ \A i \in 1..Len(old) : state'[k][i] = old[i]
                           /\ \A j \in 1..Len(p[k]) : state'[k][Len(old) + j] = p[k][j]
                   ELSE state'[k] = p[k]]_vars

\* A list of two different entries had a third appended by an update that
\* also replaced current_step
C15_Witness ==
    /\ call.node = "merge"
    /\ call.input = [candidates |-> <<"x">>, current_step |-> "s1"]
    /\ state["candidates"] = <<"x", "y", "x">>
    /\ state["current_step"] = "s1"

\* C16: the resume parser returns one candidate per input document, in input
\* order; a document whose parsing raises yields the placeholder candidate
\* named after its file, the other documents are still parsed and the run
\* goes on.
C16_OneCandidatePerDocument ==
    call.node = "resume_parser" =>
        LET filenames == state["resume_filenames"]
            candidates == state["candidates"]
        IN /\ ~call.raised
           /\ pc \in {"skill_matcher", "tool_coordinator"}
           /\ Len(candidates) = Len(state["resumes"])
           /\ \A i \in 1..Len(candidates) :
                 /\ candidates[i].resume_file_name = filenames[i]
                 /\ (call.input[i].text_length >= 100 /\ call.input[i].answer = "raise") =>
                       candidates[i].name = "Unknown (" \o filenames[i] \o ")"
                 /\ (call.input[i].text_length >= 100 /\ call.input[i].answer = "ok") =>
                       candidates[i] = Profile(filenames[i])

\* Parsing the first of two documents raised, the second was parsed
C16_Witness ==
    /\ call.node = "resume_parser"
    /\ state["resumes"] = <<"r1.pdf", "r2.pdf">>
    /\ call.input = <<[text_length |-> 2000, answer |-> "raise"],
                      [text_length |-> 2000, answer |-> "ok"]>>
    /\ state["candidates"][1].name = "Unknown (r1.pdf)"
    /\ state["candidates"][2].name = "Bob"

\* C17: when the text-generation call raises while the basic skill matcher
\* works on a candidate, the stage does not raise: the candidate gets the
\* score of the exact-string fallback matcher, every candidate has a score
\* and the run goes on to the experience analysis.
C17_SkillFallbackOnCallFailure ==
    (call.node = "skill_matcher"
        /\ \E i \in 1..Len(call.input.answers) : call.input.answers[i] = "raise") =>
        /\ ~call.raised
        /\ pc = "experience_analyzer"
        /\ Len(state["skill_scores"]) = Len(state["candidates"])
        /\ \A i \in 1..Len(call.input.answers) :
              call.input.answers[i] = "raise" =>
                  state["skill_scores"][i] =
                      FallbackMatching(state["candidates"][i], state["job_requirements"])

\* The last call returned normally after a failed external call or an answer
\* that could not be decoded: the node used its fallback
UsedFallback ==
    /\ ~call.raised
    /\ \/ call.node = "job_analyzer" /\ call.input = "undecodable"
       \/ /\ call.node = "resume_parser"
          /\ \E i \in 1..Len(call.input) :
                call.input[i].text_length >= 100 /\ call.input[i].answer = "raise"
       \/ /\ call.node = "tool_coordinator"
          /\ \E i \in 1..Len(call.input) :
                call.input[i].shape \in {"raise", "undecodable"}
       \/ /\ call.node = "skill_matcher"
          /\ \E i \in 1..Len(call.input.answers) :
                call.input.answers[i] = "undecodable"
       \/ call.node = "quality_checker" /\ call.input = "failed"

\* C18: whenever a stage has used its fallback the errors list of the state
\* holds an entry, and a run whose job analysis fell back to the minimal
\* requirements ends with a non-empty errors list.
C18_FallbackLogged ==
    /\ UsedFallback => state["errors"] /= <<>>
    /\ (pc = "END" /\ state["job_requirements"].job_title = "Unknown") =>
          state["errors"] /= <<>>

\* The last call received an answer that is not JSON or has the wrong shape:
\* a list where a record is expected, a null or a missing entry
BadAnswerReceived ==
    \/ call.node = "job_analyzer" /\ call.input \in {"undecodable", "wrong_shape"}
    \/ /\ call.node = "tool_coordinator"
       /\ \E i \in 1..Len(call.input) :
             \/ call.input[i].shape \in {"undecodable", "list"}
             \/ call.input[i].shape = "dict" /\ call.input[i].tools_entry = "null"
             \/ call.input[i].shape = "dict" /\ call.input[i].reasoning = "absent"
    \/ /\ call.node = "skill_matcher"
       /\ \A i \in 1..Len(call.input.answers) : call.input.answers[i] /= "raise"
       /\ \E i \in 1..Len(call.input.answers) : call.input.answers[i] = "undecodable"

\* C19: a stage that receives an answer it cannot decode, or of the wrong
\* shape, returns normally with its fallback value: the stage does not raise.
C19_NoDecodeErrorEscapes == BadAnswerReceived => ~call.raised

\* The retry counter stands at the cap and the stored verdict's confidence is
\* below the threshold
RetriesExhausted ==
    /\ "quality_check" \in DOMAIN state
    /\ ReanalysisCount >= MaxReanalysis
    /\ state["quality_check"].confidence < ConfidenceThreshold

\* C20: when the retries are exhausted the verdict in the final state says
\* so: it has an entry for the exhausted limit or, at the least, it no longer
\* asks for a reanalysis although the confidence is below the threshold.
C20_ExhaustionNoted ==
    (pc = "END" /\ RetriesExhausted) =>
        \/ "retry_limit_exhausted" \in DOMAIN state["quality_check"]
        \/ ~state["quality_check"].needs_reanalysis

\* C21: a resume whose extracted text is empty or shorter than 100 characters
\* gets the empty-profile placeholder of its file, and its text is not sent
\* to the text-generation service.
C21_ShortTextNotSent ==
    call.node = "resume_parser" =>
        \A i \in 1..Len(call.input) :
            call.input[i].text_length < 100 =>
                /\ state["candidates"][i] =
                      [name |-> "Unknown (" \o state["resume_filenames"][i] \o ")",
                       resume_file_name |-> state["resume_filenames"][i],
                       work_experience |-> <<>>, github_url |-> "",
                       technical_skills |-> <<>>]
                /\ state["resume_filenames"][i] \notin call.sent

\* The first document gave 99 characters, the second 100: only the second
\* was sent and parsed
C21_Witness ==
    /\ call.node = "resume_parser"
    /\ state["resume_filenames"] = <<"r1.pdf", "r2.pdf">>
    /\ call.input[1].text_length = 99
    /\ call.input[2] = [text_length |-> 100, answer |-> "ok"]
    /\ call.sent = {"r2.pdf"}
    /\ state["candidates"][1].name = "Unknown (r1.pdf)"
    /\ state["candidates"][2].name = "Bob"

\* Two skill names that differ in the case of their letters at most
SameIgnoringCase(a, b) == a = b \/ {a, b} = {"Python", "python"}

\* C22: the fallback matcher puts a must-have skill under matched exactly
\* when its name equals, ignoring case, a skill of the candidate; matched and
\* missing are disjoint and together are the must-have skills; and with equal
\* experience and education scores the candidate who matches more must-have
\* skills is ranked above the other.
C22_FallbackExactMatch ==
    "skill_scores" \in DOMAIN state =>
        LET must_have == state["job_requirements"].must_have
            result(i) == state["skill_scores"][i]
            skills(i) == Range(state["candidates"][i].technical_skills)
        IN /\ \A i \in 1..Len(state["candidates"]) :
                 /\ \A s \in Range(must_have) :
                       s \in Range(result(i).matched_must_have)
                           <=> \E c \in skills(i) : SameIgnoringCase(s, c)
                 /\ Range(result(i).matched_must_have)
                        \cap Range(result(i).missing_must_have) = {}
                 /\ Range(result(i).matched_must_have)
                        \cup Range(result(i).missing_must_have) = Range(must_have)
                 /\ Len(result(i).matched_must_have) + Len(result(i).missing_must_have)
                        = Len(must_have)
           /\ "ranked_candidates" \in DOMAIN state =>
                 \A i, j \in 1..Len(state["candidates"]) :
                     Len(result(i).matched_must_have) > Len(result(j).matched_must_have) =>
                         \E r, q \in 1..Len(state["ranked_candidates"]) :
                             /\ r < q
                             /\ state["ranked_candidates"][r].candidate_score.candidate_name
                                   = state["candidates"][i].name
                             /\ state["ranked_candidates"][q].candidate_score.candidate_name
                                   = state["candidates"][j].name

\* Must-haves Python and TensorFlow: A with Python and PyTorch matches one of
\* two, B with Java and Spring none, and A is ranked first
C22_Witness ==
    /\ pc = "END"
    /\ state["job_requirements"].must_have = <<"Python", "TensorFlow">>
    /\ state["candidates"][1].technical_skills = <<"Python", "PyTorch">>
    /\ state["candidates"][2].technical_skills = <<"Java", "Spring">>
    /\ state["skill_scores"][1].matched_must_have = <<"Python">>
    /\ state["skill_scores"][1].missing_must_have = <<"TensorFlow">>
    /\ state["skill_scores"][2].matched_must_have = <<>>
    /\ state["ranked_candidates"][1].candidate_score.candidate_name = "A"
    /\ state["ranked_candidates"][2].candidate_score.candidate_name = "B"

\* The key each per-candidate scoring stage writes
ResultKey(node) ==
    CASE node \in {"skill_matcher", "skill_matcher_enhanced"} -> "skill_scores"
      [] node \in {"experience_analyzer", "experience_analyzer_enhanced"} ->
            "experience_scores"
      [] node = "education_verifier" -> "education_scores"

\* C23: the result list of skill matching, experience analysis and education
\* verification has as many entries as the candidate list, entry i carries
\* the name of candidate i, and after an enhanced scoring stage or the
\* education verifier has run entry i holds the score computed for
\* candidate i.
C23_ResultsAlignedByIndex ==
    /\ \A key \in {"skill_scores", "experience_scores", "education_scores"} :
          key \in DOMAIN state =>
              /\ Len(state[key]) = Len(state["candidates"])
              /\ \A i \in 1..Len(state[key]) :
                    state[key][i].candidate_name = state["candidates"][i].name
    /\ (call.node \in {"skill_matcher_enhanced", "experience_analyzer",
                        "experience_analyzer_enhanced", "education_verifier"}) =>
          \A i \in 1..Len(state["candidates"]) :
              state[ResultKey(call.node)][i].score = call.input[i]

\* The education verifier has run a second time over two candidates
C23_Witness ==
    /\ call.node = "education_verifier"
    /\ Count(trace, "education_verifier") = 2
    /\ Len(state["candidates"]) = 2
    /\ state["education_scores"][1].score = 70
    /\ state["education_scores"][2].score = 80
    /\ state["experience_scores"][1].score = 80

\* C24: however often the loop body has run, experience_scores,
\* education_scores, candidate_scores and ranked_candidates each hold one
\* entry per candidate (a rerun replaces the earlier results), and the
\* verdict in the state is the one of the latest quality check.
C24_LoopBodyReplaces ==
    /\ \A key \in {"experience_scores", "education_scores", "candidate_scores",
                     "ranked_candidates"} :
          key \in DOMAIN state => Len(state[key]) = Len(state["candidates"])
    /\ verdicts /= <<>> => state["quality_check"] = Last(verdicts)

\* The loop body ran twice over two candidates and the two verdicts differ
C24_Witness ==
    /\ pc = "bias_detector"
    /\ Count(trace, "experience_analyzer_enhanced") = 2
    /\ Count(trace, "scorer") = 2
    /\ Len(state["candidates"]) = 2
    /\ Len(verdicts) = 2
    /\ verdicts[1] /= verdicts[2]
    /\ state["quality_check"] = verdicts[2]

\* What the loop body reads and must leave alone
AnalysisInputs ==
    {"candidates", "job_requirements", "skill_scores", "tool_plan",
     "company_verifications", "github_analyses", "skill_taxonomy_data"}

\* C25: from the first entry into the loop body on (through every iteration,
\* every router decision and the stages after the loop) the candidate list,
\* the job requirements, the skill scores, the tool plans and the enrichment
\* results stay what they were; the tool plan is written by the coordinator
\* and by no other step.
C25_LoopKeepsInputs ==
    [][/\ (graph = "enhanced"
            /\ (pc \in Range(LoopBody) \cup {"should_reanalyze"} \/ routed /= <<>>)) =>
              \A key \in AnalysisInputs :
                  /\ key \in DOMAIN state
                  /\ key \in DOMAIN state'
                  /\ state'[key] = state[key]
       /\ pc /= "tool_coordinator" =>
              /\ ("tool_plan" \in DOMAIN state') = ("tool_plan" \in DOMAIN state)
              /\ "tool_plan" \in DOMAIN state => state'["tool_plan"] = state["tool_plan"]
      ]_vars

\* A run that went round the loop with plans and enrichment results in place
C25_Witness ==
    /\ graph = "enhanced" /\ pc = "END"
    /\ routed = <<"reanalyze", "continue">>
    /\ Len(state["candidates"]) = 2
    /\ DOMAIN state["tool_plan"] = {"Alice", "Bob"}
    /\ DOMAIN state["company_verifications"] = {"Alice", "Bob"}
    /\ "Alice" \in DOMAIN state["skill_taxonomy_data"]

\* C26: every set of interview questions is built from the score of the
\* candidate the questions are for (the score's candidate_name is the
\* candidate's name), whatever the ranking.
C26_QuestionsFromOwnScore ==
    "interview_questions" \in DOMAIN state =>
        \A name \in DOMAIN state["interview_questions"] :
            state["interview_questions"][name].built_from =
                state["interview_questions"][name].asked_of

\* The workflow was executed for submission k
Executed(k) == \E i \in 1..Len(trace) : trace[i] = Event("run", k)

\* C27: every press of Start Screening (the k-th, for every k) leads to the
\* workflow being executed for that submission and to workflow_state complete
\* or error, also when the session holds the results of an earlier run.
C27_StartLeadsToOutcome ==
    \A k \in 1..MaxSubmissions :
        (state["resume_files"].submission = k /\ state["workflow_state"] = "processing")
            ~> (Executed(k) /\ state["workflow_state"] \in {"complete", "error"})

\* C28: every candidate, namesakes included, has in the tool plan the plan the
\* coordinator computed for it, and after the enrichment every candidate
\* planned for the skill taxonomy has its own taxonomy entry.
C28_OwnPlanOwnEntry ==
    LET candidates == state["candidates"]
    IN /\ (call.node = "tool_coordinator" /\ ~call.raised) =>
             \A i \in 1..Len(candidates) :
                 state["tool_plan"][candidates[i].name] =
                     DecideToolsForCandidate(call.input[i])
       /\ call.node = "candidate_enricher" =>
             \A i \in 1..Len(candidates) :
                 LET own == RunSkillTaxonomy(NewEnricher, candidates[i]).data
                 IN ("skill_taxonomy" \in Range(state["tool_plan"][candidates[i].name].tools)
                        /\ Truthy(own)) =>
                       /\ candidates[i].name \in DOMAIN state["skill_taxonomy_data"]
                       /\ state["skill_taxonomy_data"][candidates[i].name] = own

\* C29: after scoring, ranked_candidates is a permutation of the candidates
\* (as many entries as candidates, every name as often as among the
\* candidates), the rank of the i-th entry is i, and candidate_scores holds
\* the same scores in the same order.
C29_RankedIsPermutation ==
    "ranked_candidates" \in DOMAIN state =>
        LET ranked == state["ranked_candidates"]
            candidates == state["candidates"]
            ranked_names == [i \in 1..Len(ranked) |-> ranked[i].candidate_score.candidate_name]
            parsed_names == [i \in 1..Len(candidates) |-> candidates[i].name]
        IN /\ Len(ranked) = Len(candidates)
           /\ \A name \in Range(parsed_names) \cup Range(ranked_names) :
                 Count(ranked_names, name) = Count(parsed_names, name)
           /\ \A i \in 1..Len(ranked) : ranked[i].rank = i
           /\ state["candidate_scores"] =
                 [i \in 1..Len(ranked) |-> ranked[i].candidate_score]

\* The scorer has ranked two candidates, the one parsed second first
C29_Witness ==
    /\ call.node = "scorer" /\ ~call.raised
    /\ Len(state["candidates"]) = 2
    /\ state["ranked_candidates"][1].candidate_score.candidate_name
          = state["candidates"][2].name
    /\ state["ranked_candidates"][2].candidate_score.candidate_name
          = state["candidates"][1].name
    /\ state["ranked_candidates"][2].rank = 2

\* C30: in the enhanced workflow reanalysis_count is always 0, 1 or 2, no step
\* lowers it, and a quality check gives needs_reanalysis = TRUE only when the
\* counter was below 2 when the check started.
C30_CounterBounded ==
    /\ [](graph = "enhanced" => Get(state, "reanalysis_count", 0) \in {0, 1, 2})
    /\ [][graph = "enhanced" =>
             /\ Get(state', "reanalysis_count", 0) >= Get(state, "reanalysis_count", 0)
             /\ (pc = "quality_checker" /\ pc' /= "quality_checker"
                     /\ state'["quality_check"].needs_reanalysis) =>
                   Get(state, "reanalysis_count", 0) < 2
         ]_vars

\* The second quality check of a run asked for a reanalysis again: the
\* counter stands at 2
C30_Witness ==
    /\ graph = "enhanced"
    /\ call.node = "quality_checker"
    /\ Len(verdicts) = 2
    /\ state["quality_check"].needs_reanalysis
    /\ state["reanalysis_count"] = 2

=============================================================================
